---- MODULE Spec2Model ----
(***************************************************************************)
(* Model of the Socket.IO chat relay of src/app.js: the two connection     *)
(* maps (activeUsers, userSockets), the Socket.IO rooms, the Firestore     *)
(* collections 'chats' and 'messages', the handlers of the events join,    *)
(* sendMessage, typing and disconnect, and the route POST /api/chats.      *)
(*                                                                         *)
(* An async handler runs from one await to the next without interruption   *)
(* (Node runs one callback at a time), so every action below is one such   *)
(* run: a *Start action is the handler up to its first await, and each     *)
(* later action is the completion of the awaited Firestore call together   *)
(* with the code up to the next await or the end of the handler.  A        *)
(* Firestore call that fails has no effect on the store and throws into    *)
(* the handler's catch block.                                              *)
(***************************************************************************)
EXTENDS Integers, Sequences, FiniteSets, Bags, TLC

(***************************************************************************)
(* Bounds of the model.                                                    *)
(***************************************************************************)
MaxEvents == 3   \* join and sendMessage events that get as far as the store
MaxCreates == 2  \* POST /api/chats requests that get as far as the store

Sockets == {"s1", "s2"}
Users   == {"a", "b"}
ChatIds == {"a_b", "a_c"}

\* the chats collection at server start: chat "a_b" exists, chat "a_c" may
Null   == [null |-> TRUE]
Str(t) == [str |-> t]
NoChat == [exists |-> FALSE]
Chat(p, lm) == [exists |-> TRUE, participants |-> p, lastMessage |-> lm]
InitialChats ==
  { [c \in ChatIds |-> IF c = "a_b" THEN Chat(<<"a", "b">>, Null) ELSE ac] :
      ac \in {NoChat, Chat(<<"a", "c">>, Null)} }

(***************************************************************************)
(* Event payloads as the clients may send them.  NoData is an event        *)
(* emitted without a payload (data is undefined); a record lacks the       *)
(* fields the client left out.                                             *)
(***************************************************************************)
NoData == [undefined |-> TRUE]
Has(d, f) == f \in DOMAIN d

\* message texts, as sequences of characters
Messages == {<<>>, <<" ">>, <<" ", "h", " ">>}

JoinPayloads ==
  {NoData} \cup [userId : Users, chatId : ChatIds]
           \cup [userId : {"a"}] \cup [chatId : {"a_b"}]
SendPayloads   == {NoData} \cup [message : Messages] \cup [timestamp : {0}]
TypingPayloads == {NoData} \cup [isTyping : BOOLEAN]

(***************************************************************************)
(* String.prototype.trim on a text held as a sequence of characters.       *)
(***************************************************************************)
IsSpace(ch) == ch = " "

RECURSIVE TrimStart(_)
TrimStart(m) ==
  IF m # <<>> /\ IsSpace(Head(m)) THEN TrimStart(Tail(m)) ELSE m

RECURSIVE TrimEnd(_)
TrimEnd(m) ==
  IF m # <<>> /\ IsSpace(m[Len(m)]) THEN TrimEnd(SubSeq(m, 1, Len(m) - 1)) ELSE m

\* a slip: only the leading whitespace is removed
Trim_StartOnly(m) == TrimStart(m)

Trim(m) == TrimEnd(TrimStart(m))

\* a slip: the text is tested without being trimmed
IsBlank_NoTrim(d) == ~Has(d, "message") \/ d.message = <<>>

\* !message || !message.trim()
IsBlank(d) == ~Has(d, "message") \/ d.message = <<>> \/ Trim(d.message) = <<>>

\* a slip: the participants are not looked at
Includes_Always(p, u) == TRUE

\* Array.prototype.includes on the participants array
Includes(p, u) == \E i \in 1..Len(p) : p[i] = u

VARIABLES
  sock,         \* socket id -> "new" | "open" | "closed"
  activeUsers,  \* Map userId -> socket id
  userSockets,  \* Map socket id -> {userId, chatId}
  rooms,        \* Socket.IO adapter: chat room -> set of socket ids
  chats,        \* Firestore collection 'chats'
  messages,     \* Firestore collection 'messages', in order of creation
  joins,        \* bag of the join handlers suspended on chatRef.get()
  sends,        \* bag of the sendMessage handlers suspended on a store call
  nEvents,      \* join and sendMessage handlers that have got to the store
  joinedOK,     \* history: <<socket, chat>> of every join that succeeded
  emitted,      \* the events emitted by the last step, in order
  crashed,      \* an exception has escaped a handler
  creates,      \* bag of the POST /api/chats handlers suspended on a store call
  served,       \* history: the HTTP requests answered, with their responses
  nCreates      \* POST /api/chats handlers that have got to the store

registry == <<activeUsers, userSockets, rooms>>
store    == <<chats, messages>>
handlers == <<joins, sends, nEvents>>
http     == <<creates, served, nCreates>>
vars == <<sock, registry, store, handlers, joinedOK, emitted, crashed, http>>

(***************************************************************************)
(* Emitting.  socket.emit addresses the socket itself, socket.to(room)     *)
(* every socket of the room but the socket, io.to(room) every socket of    *)
(* the room.  An event is delivered to those of its addressees that are    *)
(* still connected.                                                        *)
(***************************************************************************)
NoRoom == "-"
Event(ev, to, room, data) == [ev |-> ev, to |-> to, room |-> room, data |-> data]

SocketEmit(s, ev, data)      == Event(ev, {s}, NoRoom, data)
IoToEmit(rm, room, ev, data) == Event(ev, rm[room], room, data)

\* a slip: socket.broadcast.emit, which goes to every other socket
SocketToEmit_Broadcast(rm, s, room, ev, data) ==
  Event(ev, Sockets \ {s}, room, data)

\* a slip: io.to(room) in the place of socket.to(room)
SocketToEmit_WithSender(rm, s, room, ev, data) == Event(ev, rm[room], room, data)

SocketToEmit(rm, s, room, ev, data) == Event(ev, rm[room] \ {s}, room, data)

\* socket.emit('error', text)
EmitError(s, text) == SocketEmit(s, "error", [error |-> text])

\* userSockets.get(socket.id) || {}
HasSession(s) == s \in DOMAIN userSockets

\* a slip: the entry is not written
MapSet_Skip(m, k, v) == m

\* a slip: the entry is not removed
MapDelete_Nothing(m, k) == m

\* Map.prototype.set and Map.prototype.delete
MapSet(m, k, v) == [x \in DOMAIN m \cup {k} |-> IF x = k THEN v ELSE m[x]]
MapDelete(m, k) == [x \in DOMAIN m \ {k} |-> m[x]]

\* a handler is suspended, a handler is resumed
Suspend(bag, h) == bag (+) SetToBag({h})
Resume(bag, h)  == bag (-) SetToBag({h})

Init ==
  /\ sock = [s \in Sockets |-> "new"]
  /\ activeUsers = <<>>
  /\ userSockets = <<>>
  /\ rooms = [c \in ChatIds |-> {}]
  /\ chats \in InitialChats
  /\ messages = <<>>
  /\ joins = EmptyBag
  /\ sends = EmptyBag
  /\ nEvents = 0
  /\ joinedOK = {}
  /\ emitted = <<>>
  /\ crashed = FALSE
  /\ creates = EmptyBag
  /\ served = {}
  /\ nCreates = 0

\* io.on('connection'): the handlers of the socket are registered
Connect(s) ==
  /\ ~crashed
  /\ sock[s] = "new"
  /\ sock' = [sock EXCEPT ![s] = "open"]
  /\ emitted' = <<>>
  /\ UNCHANGED <<registry, store, handlers, joinedOK, crashed, http>>

(***************************************************************************)
(* socket.on('join'), up to the await of chatRef.get().                    *)
(***************************************************************************)
JoinStart(s, d) ==
  /\ ~crashed
  /\ sock[s] = "open"
  /\ IF d = NoData
       THEN \* destructuring undefined throws; the catch block reports it
            /\ emitted' = <<EmitError(s, "Failed to join chat")>>
            /\ UNCHANGED <<joins, nEvents>>
       ELSE IF ~Has(d, "userId") \/ ~Has(d, "chatId")
       THEN /\ emitted' = <<EmitError(s, "UserId and chatId are required")>>
            /\ UNCHANGED <<joins, nEvents>>
       ELSE /\ nEvents < MaxEvents
            /\ nEvents' = nEvents + 1
            /\ joins' = Suspend(joins, [s |-> s, userId |-> d.userId,
                                        chatId |-> d.chatId])
            /\ emitted' = <<>>
  /\ UNCHANGED <<sock, registry, store, sends, joinedOK, crashed, http>>

(***************************************************************************)
(* socket.on('join'), from the completion of chatRef.get() to the end.     *)
(* ok = FALSE: the get failed.                                             *)
(***************************************************************************)
JoinResume(h, ok) ==
  /\ ~crashed
  /\ BagIn(h, joins)
  /\ joins' = Resume(joins, h)
  /\ IF ~ok
       THEN /\ emitted' = <<EmitError(h.s, "Failed to join chat")>>
            /\ UNCHANGED <<registry, joinedOK>>
       ELSE IF ~chats[h.chatId].exists
       THEN /\ emitted' = <<EmitError(h.s, "Chat not found")>>
            /\ UNCHANGED <<registry, joinedOK>>
       ELSE IF ~Includes(chats[h.chatId].participants, h.userId)
       THEN /\ emitted' = <<EmitError(h.s, "Not authorized for this chat")>>
            /\ UNCHANGED <<registry, joinedOK>>
       ELSE /\ rooms' = [rooms EXCEPT ![h.chatId] = @ \cup {h.s}]
            /\ activeUsers' = MapSet(activeUsers, h.userId, h.s)
            /\ userSockets' = MapSet(userSockets, h.s,
                                     [userId |-> h.userId, chatId |-> h.chatId])
            /\ joinedOK' = joinedOK \cup {<<h.s, h.chatId>>}
            /\ emitted' =
                 << SocketToEmit(rooms', h.s, h.chatId, "userOnline",
                                 [userId |-> h.userId]),
                    SocketEmit(h.s, "joined",
                               [chatId |-> h.chatId, userId |-> h.userId]) >>
  /\ UNCHANGED <<sock, store, sends, nEvents, crashed, http>>

(***************************************************************************)
(* socket.on('disconnect').  Socket.IO takes the socket out of its rooms   *)
(* before it fires the event.                                              *)
(***************************************************************************)
Disconnect(s) ==
  /\ ~crashed
  /\ sock[s] = "open"
  /\ sock' = [sock EXCEPT ![s] = "closed"]
  /\ rooms' = [c \in ChatIds |-> rooms[c] \ {s}]
  /\ IF HasSession(s)
       THEN /\ activeUsers' = MapDelete(activeUsers, userSockets[s].userId)
            /\ userSockets' = MapDelete(userSockets, s)
            /\ emitted' = <<SocketToEmit(rooms', s, userSockets[s].chatId,
                                         "userOffline",
                                         [userId |-> userSockets[s].userId])>>
       ELSE /\ emitted' = <<>>
            /\ UNCHANGED <<activeUsers, userSockets>>
  /\ UNCHANGED <<store, handlers, joinedOK, crashed, http>>

(***************************************************************************)
(* The listener of sendMessage is called once per event, in the order in   *)
(* which the events of the socket arrive.  ord records that order among    *)
(* the handlers of one socket that are suspended together: a handler gets  *)
(* a number above those of the handlers of its socket still in flight.     *)
(***************************************************************************)
InFlight(s) == {h \in BagToSet(sends) : h.s = s}

NextOrd(s) ==
  IF InFlight(s) = {} THEN 1
  ELSE 1 + (CHOOSE m \in {h.ord : h \in InFlight(s)} :
              \A h \in InFlight(s) : h.ord <= m)

(***************************************************************************)
(* socket.on('sendMessage'), up to the await of collection.add().          *)
(***************************************************************************)
SendStart(s, d) ==
  /\ ~crashed
  /\ sock[s] = "open"
  /\ IF d = NoData
       THEN /\ emitted' = <<EmitError(s, "Failed to send message")>>
            /\ UNCHANGED <<sends, nEvents>>
       ELSE IF ~HasSession(s)
       THEN /\ emitted' = <<EmitError(s, "Not properly connected to chat")>>
            /\ UNCHANGED <<sends, nEvents>>
       ELSE IF IsBlank(d)
       THEN /\ emitted' = <<EmitError(s, "Message cannot be empty")>>
            /\ UNCHANGED <<sends, nEvents>>
       ELSE /\ nEvents < MaxEvents
            /\ nEvents' = nEvents + 1
            /\ sends' = Suspend(sends,
                 [s |-> s, pc |-> "add", ord |-> NextOrd(s),
                  userId |-> userSockets[s].userId,
                  chatId |-> userSockets[s].chatId,
                  text |-> Trim(d.message), saved |-> Null])
            /\ emitted' = <<>>
  /\ UNCHANGED <<sock, registry, store, joins, joinedOK, crashed, http>>

\* a slip: the error goes to the room of the chat
SendFail_ToRoom(h) ==
  /\ sends' = Resume(sends, h)
  /\ emitted' = <<IoToEmit(rooms, h.chatId, "error",
                           [error |-> "Failed to send message"])>>

\* the catch block of sendMessage: the handler ends with an error event
SendFail(h) ==
  /\ sends' = Resume(sends, h)
  /\ emitted' = <<EmitError(h.s, "Failed to send message")>>

\* a slip: the sender and the chat are read from the session after the await
MessageDoc_CurrentSession(h) ==
  [id |-> Len(messages) + 1,
   senderId |-> IF HasSession(h.s) THEN userSockets[h.s].userId ELSE h.userId,
   message |-> h.text, chatId |-> h.chatId]

\* the document that collection('messages').add(messageData) creates
MessageDoc(h) ==
  [id |-> Len(messages) + 1, senderId |-> h.userId, message |-> h.text,
   chatId |-> h.chatId]

(***************************************************************************)
(* Completion of db.collection('messages').add(messageData).               *)
(***************************************************************************)
SendAdd(h, ok) ==
  /\ ~crashed
  /\ BagIn(h, sends)
  /\ h.pc = "add"
  /\ IF ok
       THEN /\ messages' = Append(messages, MessageDoc(h))
            /\ sends' = Suspend(Resume(sends, h),
                 [h EXCEPT !.pc = "get", !.saved = [ref |-> Len(messages) + 1]])
            /\ emitted' = <<>>
       ELSE /\ SendFail(h)
            /\ UNCHANGED messages
  /\ UNCHANGED <<sock, registry, chats, joins, nEvents, joinedOK, crashed, http>>

(***************************************************************************)
(* Completion of messageRef.get(): savedMessage is the stored document.    *)
(***************************************************************************)
SendGet(h, ok) ==
  /\ ~crashed
  /\ BagIn(h, sends)
  /\ h.pc = "get"
  /\ IF ok
       THEN /\ sends' = Suspend(Resume(sends, h),
                 [h EXCEPT !.pc = "update", !.saved = messages[h.saved.ref]])
            /\ emitted' = <<>>
       ELSE SendFail(h)
  /\ UNCHANGED <<sock, registry, store, joins, nEvents, joinedOK, crashed, http>>

(***************************************************************************)
(* Completion of the update of the chat's last message, and the broadcast. *)
(* The update of a document that does not exist fails.                     *)
(***************************************************************************)
SendUpdate(h, ok) ==
  /\ ~crashed
  /\ BagIn(h, sends)
  /\ h.pc = "update"
  /\ IF ok /\ chats[h.chatId].exists
       THEN /\ chats' = [chats EXCEPT ![h.chatId].lastMessage = Str(h.text)]
            /\ sends' = Resume(sends, h)
            /\ emitted' = <<IoToEmit(rooms, h.chatId, "newMessage", h.saved)>>
       ELSE /\ SendFail(h)
            /\ UNCHANGED chats
  /\ UNCHANGED <<sock, registry, messages, joins, nEvents, joinedOK, crashed, http>>

(***************************************************************************)
(* socket.on('typing').  The handler has no try block: reading isTyping    *)
(* of an undefined payload throws out of the handler.                      *)
(***************************************************************************)
Typing(s, d) ==
  /\ ~crashed
  /\ sock[s] = "open"
  /\ IF HasSession(s)
       THEN IF d = NoData
            THEN /\ crashed' = TRUE
                 /\ emitted' = <<>>
            ELSE /\ emitted' = <<SocketToEmit(rooms, s, userSockets[s].chatId,
                                              "userTyping",
                                              [userId |-> userSockets[s].userId,
                                               isTyping |-> d.isTyping])>>
                 /\ UNCHANGED crashed
       ELSE /\ emitted' = <<>>
            /\ UNCHANGED crashed
  /\ UNCHANGED <<sock, registry, store, handlers, joinedOK, http>>

(***************************************************************************)
(* POST /api/chats.  The body of a request is NoData or a record with the  *)
(* participants; the user ids are one character long, and Array.sort       *)
(* without a comparator orders strings by their UTF-16 code units.         *)
(***************************************************************************)
CodeUnit == [a |-> 97, b |-> 98, c |-> 99]

CreatePairs == {<<"a", "c">>, <<"c", "a">>}
CreatePayloads ==
  {NoData} \cup [participants : CreatePairs \cup {<<"a">>}]

Less(x, y) == CodeUnit[x] < CodeUnit[y]

\* a slip: the participants are left in the order of the request
Sort_Identity(p) == p

\* participants.sort(), on an array of two
Sort(p) == IF Less(p[2], p[1]) THEN <<p[2], p[1]>> ELSE p

\* sortedParticipants.join('_')
Join(p) == p[1] \o "_" \o p[2]

\* the snapshot of db.collection('chats').doc(c)
ChatDoc(c) == IF c \in DOMAIN chats THEN chats[c] ELSE NoChat

\* res.status(...).json(...) and res.json(...)
Respond(req, status, body) ==
  served' = served \cup {[req |-> req, status |-> status, body |-> body]}

CreateOK(h) ==
  Respond(h.req, 200, [chatId |-> h.chatId, participants |-> h.participants])

CreateFail(req) == Respond(req, 500, [error |-> "Failed to create chat"])

(***************************************************************************)
(* app.post('/api/chats'), up to the await of chatRef.get().               *)
(***************************************************************************)
CreateStart(d) ==
  /\ ~crashed
  /\ IF d = NoData
       THEN \* destructuring an undefined body throws; the catch answers 500
            /\ CreateFail(d)
            /\ UNCHANGED <<creates, nCreates>>
       ELSE IF ~Has(d, "participants") \/ Len(d.participants) # 2
       THEN /\ Respond(d, 400, [error |-> "Exactly 2 participants required"])
            /\ UNCHANGED <<creates, nCreates>>
       ELSE /\ nCreates < MaxCreates
            /\ nCreates' = nCreates + 1
            /\ creates' = Suspend(creates,
                 [req |-> d, pc |-> "get",
                  participants |-> Sort(d.participants),
                  chatId |-> Join(Sort(d.participants))])
            /\ UNCHANGED served
  /\ emitted' = <<>>
  /\ UNCHANGED <<sock, registry, store, handlers, joinedOK, crashed>>

(***************************************************************************)
(* Completion of chatRef.get(): an existing chat is answered at once.      *)
(***************************************************************************)
CreateGet(h, ok) ==
  /\ ~crashed
  /\ BagIn(h, creates)
  /\ h.pc = "get"
  /\ IF ~ok
       THEN /\ CreateFail(h.req)
            /\ creates' = Resume(creates, h)
       ELSE IF ChatDoc(h.chatId).exists
       THEN /\ CreateOK(h)
            /\ creates' = Resume(creates, h)
       ELSE /\ creates' = Suspend(Resume(creates, h), [h EXCEPT !.pc = "set"])
            /\ UNCHANGED served
  /\ emitted' = <<>>
  /\ UNCHANGED <<sock, registry, store, handlers, joinedOK, crashed, nCreates>>

(***************************************************************************)
(* Completion of chatRef.set({participants, lastMessage: null, ...}), and  *)
(* the answer.  set writes the whole document.                             *)
(***************************************************************************)
CreateSet(h, ok) ==
  /\ ~crashed
  /\ BagIn(h, creates)
  /\ h.pc = "set"
  /\ creates' = Resume(creates, h)
  /\ IF ok
       THEN /\ chats' = MapSet(chats, h.chatId, Chat(h.participants, Null))
            /\ CreateOK(h)
       ELSE /\ CreateFail(h.req)
            /\ UNCHANGED chats
  /\ emitted' = <<>>
  /\ UNCHANGED <<sock, registry, messages, handlers, joinedOK, crashed, nCreates>>

Next ==
  \/ \E s \in Sockets : Connect(s)
  \/ \E s \in Sockets, d \in JoinPayloads : JoinStart(s, d)
  \/ \E h \in BagToSet(joins), ok \in BOOLEAN : JoinResume(h, ok)
  \/ \E s \in Sockets, d \in SendPayloads : SendStart(s, d)
  \/ \E h \in BagToSet(sends), ok \in BOOLEAN : SendAdd(h, ok)
  \/ \E h \in BagToSet(sends), ok \in BOOLEAN : SendGet(h, ok)
  \/ \E h \in BagToSet(sends), ok \in BOOLEAN : SendUpdate(h, ok)
  \/ \E s \in Sockets, d \in TypingPayloads : Typing(s, d)
  \/ \E s \in Sockets : Disconnect(s)

Spec == Init /\ [][Next]_vars

(***************************************************************************)
(* The server with its HTTP route for the creation of chats, which is      *)
(* asked for the chat of a and c in both orders, and with one socket       *)
(* client, which joins that chat as user a and sends one text.             *)
(***************************************************************************)
ChatSocket       == "s1"
ChatJoinPayloads == [userId : {"a"}, chatId : {"a_c"}]
ChatSendPayloads == [message : {<<" ", "h", " ">>}]

NextChats ==
  \/ \E d \in CreatePayloads : CreateStart(d)
  \/ \E h \in BagToSet(creates), ok \in BOOLEAN : CreateGet(h, ok)
  \/ \E h \in BagToSet(creates), ok \in BOOLEAN : CreateSet(h, ok)
  \/ Connect(ChatSocket)
  \/ \E d \in ChatJoinPayloads : JoinStart(ChatSocket, d)
  \/ \E h \in BagToSet(joins), ok \in BOOLEAN : JoinResume(h, ok)
  \/ \E d \in ChatSendPayloads : SendStart(ChatSocket, d)
  \/ \E h \in BagToSet(sends), ok \in BOOLEAN : SendAdd(h, ok)
  \/ \E h \in BagToSet(sends), ok \in BOOLEAN : SendGet(h, ok)
  \/ \E h \in BagToSet(sends), ok \in BOOLEAN : SendUpdate(h, ok)

SpecChats == Init /\ [][NextChats]_vars

(***************************************************************************)
(* Vocabulary of the properties.                                           *)
(***************************************************************************)
Connected    == {s \in Sockets : sock[s] = "open"}
Delivered(e) == e.to \cap Connected
Emitted      == {emitted[i] : i \in 1..Len(emitted)}
RoomEvents   == {"newMessage", "userTyping", "userOnline", "userOffline"}

\* the connections whose current session is for chat c
SessionsOf(c) == {t \in DOMAIN userSockets : userSockets[t].chatId = c}

(***************************************************************************)
(* C1.  Closed is terminal: once the disconnect handler of a connection    *)
(* has run, the connection has no entry in userSockets, in every later     *)
(* state.  (A closed socket stays closed, so this is a state invariant.)   *)
(* The code breaks it: a join suspended on the chat fetch registers the    *)
(* session when it resumes, after the disconnect.                          *)
(***************************************************************************)
C1_ClosedIsTerminal ==
  \A s \in Sockets : sock[s] = "closed" => ~HasSession(s)

(***************************************************************************)
(* C2.  Registry lockstep: activeUsers sends u to s if and only if         *)
(* userSockets holds a session of user u for s.  The code breaks it: a     *)
(* join overwrites activeUsers[u] and leaves the session of the socket     *)
(* that held u before.                                                     *)
(***************************************************************************)
C2_Lockstep ==
  \A u \in Users, s \in Sockets :
    (u \in DOMAIN activeUsers /\ activeUsers[u] = s)
      <=> (HasSession(s) /\ userSockets[s].userId = u)

(***************************************************************************)
(* C3.  Last join wins with eviction: right after user u has joined from   *)
(* connection s2, activeUsers sends u to s2 and no other connection has a  *)
(* session of user u.  The code breaks the second half (see C2).           *)
(***************************************************************************)
C3_LastJoinEvicts ==
  \A s2 \in Sockets, u \in Users, c \in ChatIds :
    (Len(emitted) = 2
       /\ emitted[2] = SocketEmit(s2, "joined", [chatId |-> c, userId |-> u]))
      => /\ u \in DOMAIN activeUsers /\ activeUsers[u] = s2
         /\ \A s1 \in Sockets \ {s2} :
              ~(HasSession(s1) /\ userSockets[s1].userId = u)

(***************************************************************************)
(* C4.  A join that fails validation (userId or chatId missing, chat       *)
(* absent, user not a participant) emits one error to the joining          *)
(* connection and nothing else, and leaves the maps, the rooms, the store  *)
(* and the other handlers as they were.                                    *)
(***************************************************************************)
JoinErrors ==
  {"UserId and chatId are required", "Chat not found", "Not authorized for this chat"}

JoinRejected(s) ==
  /\ \E text \in JoinErrors : emitted' = <<EmitError(s, text)>>
  /\ UNCHANGED <<sock, registry, store, sends, joinedOK, crashed>>

C4_FailedJoinChangesNothing ==
  [][ /\ \A s \in Sockets, d \in JoinPayloads \ {NoData} :
           (({"userId", "chatId"} \ DOMAIN d # {}) /\ JoinStart(s, d))
             => JoinRejected(s) /\ UNCHANGED <<joins, nEvents>>
      /\ \A h \in BagToSet(joins) :
           ((~chats[h.chatId].exists
               \/ \A i \in DOMAIN chats[h.chatId].participants :
                    chats[h.chatId].participants[i] # h.userId)
              /\ JoinResume(h, TRUE))
             => JoinRejected(h.s) /\ UNCHANGED nEvents ]_vars

C4_Witness ==
  \E s \in Sockets :
    /\ emitted = <<EmitError(s, "Not authorized for this chat")>>
    /\ ~HasSession(s)
    /\ \A c \in ChatIds : s \notin rooms[c]

(***************************************************************************)
(* C5.  A connection is addressed a newMessage, userTyping, userOnline or  *)
(* userOffline event of chat c only if it has completed a successful join  *)
(* of chat c before.                                                       *)
(***************************************************************************)
C5_OnlyJoinedReceive ==
  \A e \in Emitted :
    e.ev \in RoomEvents => \A t \in e.to : <<t, e.room>> \in joinedOK

C5_Witness ==
  \E e \in Emitted : e.ev \in RoomEvents /\ Delivered(e) # {}

(***************************************************************************)
(* C6.  Room membership is derived from the registry: every broadcast for  *)
(* chat c goes to exactly the connections whose current session is for c,  *)
(* minus the excluded sender if there is one.  The code breaks it: the     *)
(* rooms are Socket.IO's, and a re-join to another chat leaves the room of *)
(* the first.                                                              *)
(***************************************************************************)
C6_RoomIsRegistry ==
  \A e \in Emitted :
    e.ev \in RoomEvents =>
      \/ e.to = SessionsOf(e.room)
      \/ \E s \in Sockets : e.to = SessionsOf(e.room) \ {s}

(***************************************************************************)
(* C7.  A sendMessage with an empty or whitespace-only message on a        *)
(* joined connection emits one error to the sender and has no other        *)
(* effect: no document is added, no chat is updated, no handler is left    *)
(* to broadcast.                                                           *)
(***************************************************************************)
WhitespaceOnly(m) == \A i \in 1..Len(m) : m[i] = " "

C7_BlankMessageRejected ==
  [][ \A s \in Sockets, d \in SendPayloads \ {NoData} :
        (Has(d, "message") /\ WhitespaceOnly(d.message)
           /\ HasSession(s) /\ SendStart(s, d))
          => /\ emitted' = <<EmitError(s, "Message cannot be empty")>>
             /\ UNCHANGED <<sock, registry, store, handlers, joinedOK, crashed>>
    ]_vars

C7_Witness ==
  \E s \in Sockets :
    /\ HasSession(s)
    /\ emitted = <<EmitError(s, "Message cannot be empty")>>
    /\ messages = <<>>
    /\ sends = EmptyBag

(***************************************************************************)
(* C8.  A sendMessage with a text on a connection joined to chat c as      *)
(* user u, when every store call succeeds: the handler takes u, c and the  *)
(* trimmed text; the add appends one document with them; the update sets   *)
(* lastMessage of c to the text; and the same step, the last of the        *)
(* handler, emits newMessage with the stored document to every socket of   *)
(* room c, the sender among them if it is still connected.  No step before *)
(* it emits anything, and a newMessage is emitted only for a stored        *)
(* document whose chat has been updated.                                   *)
(***************************************************************************)
\* t is m without its leading and trailing whitespace
TrimmedOf(m, t) ==
  \E i, j \in 0..Len(m) :
    /\ i + j <= Len(m)
    /\ t = SubSeq(m, i + 1, Len(m) - j)
    /\ \A k \in 1..i : m[k] = " "
    /\ \A k \in (Len(m) - j + 1)..Len(m) : m[k] = " "
    /\ t # <<>> => t[1] # " " /\ t[Len(t)] # " "

IsDocOf(m, h) ==
  m.senderId = h.userId /\ m.message = h.text /\ m.chatId = h.chatId

C8_Start(s, d) ==
  /\ emitted' = <<>>
  /\ UNCHANGED store
  /\ \E h \in BagToSet(sends') :
       /\ sends' = Suspend(sends, h)
       /\ h.s = s /\ h.pc = "add"
       /\ h.userId = userSockets[s].userId
       /\ h.chatId = userSockets[s].chatId
       /\ TrimmedOf(d.message, h.text)

C8_Add(h) ==
  /\ emitted' = <<>>
  /\ UNCHANGED chats
  /\ Len(messages') = Len(messages) + 1
  /\ SubSeq(messages', 1, Len(messages)) = messages
  /\ IsDocOf(messages'[Len(messages')], h)

C8_Update(h) ==
  /\ UNCHANGED messages
  /\ chats'[h.chatId].lastMessage = Str(h.text)
  /\ \A c \in ChatIds \ {h.chatId} : chats'[c] = chats[c]
  /\ \E i \in 1..Len(messages) :
       /\ IsDocOf(messages[i], h)
       /\ messages[i].id = i
       /\ emitted' = <<Event("newMessage", rooms[h.chatId], h.chatId, messages[i])>>
  /\ sock[h.s] = "open" => h.s \in rooms[h.chatId]
  /\ ~BagIn(h, sends') \/ CopiesIn(h, sends') < CopiesIn(h, sends)

C8_NewMessageIsStored ==
  \A e \in Emitted :
    e.ev = "newMessage" =>
      /\ \E i \in 1..Len(messages) : messages[i] = e.data
      /\ chats[e.room].lastMessage = Str(e.data.message)

C8_SendPersistsThenBroadcasts ==
  /\ []C8_NewMessageIsStored
  /\ [][ /\ \A s \in Sockets, d \in SendPayloads \ {NoData} :
              (Has(d, "message") /\ ~WhitespaceOnly(d.message)
                 /\ HasSession(s) /\ SendStart(s, d))
                => C8_Start(s, d)
         /\ \A h \in BagToSet(sends) :
              /\ SendAdd(h, TRUE) => C8_Add(h)
              /\ SendGet(h, TRUE) => emitted' = <<>> /\ UNCHANGED store
              /\ SendUpdate(h, TRUE) => C8_Update(h) ]_vars

C8_Witness ==
  \E e \in Emitted, s \in Sockets :
    /\ e.ev = "newMessage"
    /\ HasSession(s)
    /\ userSockets[s].userId = e.data.senderId
    /\ userSockets[s].chatId = e.room
    /\ s \in Delivered(e)
    /\ Delivered(e) # {s}
    /\ chats[e.room].lastMessage = Str(e.data.message)

(***************************************************************************)
(* C9.  When a store call of a sendMessage handler fails (the add, the     *)
(* read-back or the update), the handler ends there: it emits one error,   *)
(* to the sending connection only, changes nothing in the store or the     *)
(* registry, and is not left to broadcast a newMessage.                    *)
(***************************************************************************)
C9_StoreFailureReported ==
  [][ \A h \in BagToSet(sends) :
        (SendAdd(h, FALSE) \/ SendGet(h, FALSE) \/ SendUpdate(h, FALSE))
          => /\ emitted' = <<Event("error", {h.s}, NoRoom,
                                   [error |-> "Failed to send message"])>>
             /\ sends' = Resume(sends, h)
             /\ UNCHANGED <<sock, registry, store, joins, nEvents, joinedOK,
                            crashed>> ]_vars

C9_Witness ==
  \E s \in Sockets :
    /\ emitted = <<EmitError(s, "Failed to send message")>>
    /\ Len(messages) > 0
    /\ sends = EmptyBag
    /\ \A c \in ChatIds : chats[c].exists => chats[c].lastMessage = Null

(***************************************************************************)
(* C10.  A typing event with a payload on a connection with session        *)
(* {u, c} emits userTyping{u, isTyping} to the sockets of room c other     *)
(* than the sender, and changes nothing; a typing event on a connection    *)
(* without a session emits nothing and changes nothing.                    *)
(***************************************************************************)
C10_TypingToOthers ==
  [][ \A s \in Sockets, d \in TypingPayloads :
        Typing(s, d) =>
          IF HasSession(s)
            THEN d # NoData =>
                   /\ emitted' =
                        <<Event("userTyping",
                                {t \in rooms[userSockets[s].chatId] : t # s},
                                userSockets[s].chatId,
                                [userId |-> userSockets[s].userId,
                                 isTyping |-> d.isTyping])>>
                   /\ UNCHANGED <<sock, registry, store, handlers, joinedOK,
                                  crashed>>
            ELSE /\ emitted' = <<>>
                 /\ UNCHANGED <<sock, registry, store, handlers, joinedOK,
                                crashed>> ]_vars

C10_Witness ==
  \E e \in Emitted :
    /\ e.ev = "userTyping"
    /\ Delivered(e) # {}
    /\ \A t \in e.to : HasSession(t) => userSockets[t].userId # e.data.userId

\* user u is among the participants of chat c
IsParticipant(c, u) ==
  /\ chats[c].exists
  /\ \E i \in DOMAIN chats[c].participants : chats[c].participants[i] = u

(***************************************************************************)
(* C11.  The disconnect of a connection s with session {u, c} removes the  *)
(* session of s and emits userOffline{u} once, to the sockets of room c    *)
(* other than s, so that every other open socket of the room is delivered  *)
(* it; the disconnect of a connection without a session emits nothing and  *)
(* leaves activeUsers and userSockets as they were.                        *)
(***************************************************************************)
C11_DisconnectAnnounced ==
  [][ \A s \in Sockets :
        Disconnect(s) =>
          IF HasSession(s)
            THEN /\ s \notin DOMAIN userSockets'
                 /\ emitted' =
                      <<Event("userOffline",
                              rooms[userSockets[s].chatId] \ {s},
                              userSockets[s].chatId,
                              [userId |-> userSockets[s].userId])>>
                 /\ \A t \in Sockets \ {s} :
                      (sock'[t] = "open" /\ t \in rooms'[userSockets[s].chatId])
                        => t \in emitted'[1].to
            ELSE /\ emitted' = <<>>
                 /\ UNCHANGED <<activeUsers, userSockets>> ]_vars

C11_Witness ==
  \E e \in Emitted, s \in Sockets :
    /\ e.ev = "userOffline"
    /\ sock[s] = "closed"
    /\ ~HasSession(s)
    /\ s \notin e.to
    /\ Delivered(e) # {}

(***************************************************************************)
(* C12.  A join of chat c as user u on connection s that succeeds          *)
(* registers the session {u, c} of s, emits userOnline{u} to the sockets   *)
(* of room c other than s, and then joined{c, u} to s alone, in that       *)
(* order; and in every state where a userOnline has just been emitted, the *)
(* session it announces is registered.                                     *)
(***************************************************************************)
C12_OnlineAfterRegistered ==
  \A i \in 1..Len(emitted) :
    emitted[i].ev = "userOnline" =>
      /\ i < Len(emitted)
      /\ emitted[i + 1].ev = "joined"
      /\ \E s \in Sockets :
           /\ emitted[i + 1].to = {s}
           /\ s \notin emitted[i].to
           /\ HasSession(s)
           /\ userSockets[s] = [userId |-> emitted[i].data.userId,
                                chatId |-> emitted[i].room]

C12_JoinOrder ==
  /\ []C12_OnlineAfterRegistered
  /\ [][ \A h \in BagToSet(joins) :
           (IsParticipant(h.chatId, h.userId) /\ JoinResume(h, TRUE))
             => /\ h.s \in DOMAIN userSockets'
                /\ userSockets'[h.s] = [userId |-> h.userId, chatId |-> h.chatId]
                /\ rooms'[h.chatId] = rooms[h.chatId] \cup {h.s}
                /\ emitted' =
                     << Event("userOnline", rooms'[h.chatId] \ {h.s}, h.chatId,
                              [userId |-> h.userId]),
                        Event("joined", {h.s}, NoRoom,
                              [chatId |-> h.chatId, userId |-> h.userId]) >> ]_vars

C12_Witness ==
  /\ Len(emitted) = 2
  /\ emitted[1].ev = "userOnline"
  /\ Delivered(emitted[1]) # {}
  /\ emitted[2].ev = "joined"
  /\ Delivered(emitted[2]) # {}

(***************************************************************************)
(* C13.  Join before send on one connection: a sendMessage that arrives    *)
(* on a connection after a join whose chat exists and has the user among   *)
(* its participants is not rejected as not connected.  The code breaks it: *)
(* while the join is suspended on the chat fetch, the sendMessage is       *)
(* handled at once, finds no session and is rejected.                      *)
(***************************************************************************)
C13_JoinBeforeSend ==
  \A s \in Sockets :
    emitted = <<EmitError(s, "Not properly connected to chat")>>
      => ~\E h \in BagToSet(joins) :
            h.s = s /\ IsParticipant(h.chatId, h.userId)

(***************************************************************************)
(* C14.  Sends of one connection keep their order: while a sendMessage of  *)
(* a connection is still on its way, no sendMessage of the same connection *)
(* that arrived after it has its document added to the store or its        *)
(* newMessage broadcast.  The code breaks it: the handlers run             *)
(* concurrently and their store calls complete in any order.               *)
(***************************************************************************)
C14_SendsInOrder ==
  [][ \A h1, h2 \in BagToSet(sends) :
        (h1.s = h2.s /\ h1.ord < h2.ord)
          => /\ ~(h1.pc = "add" /\ SendAdd(h2, TRUE))
             /\ ~SendUpdate(h2, TRUE) ]_vars

(***************************************************************************)
(* C17.  No handler lets an exception escape: every failure ends in an     *)
(* error event to the connection or in a documented silent drop.  The code *)
(* breaks it: the typing handler has no try block, and a typing event      *)
(* without a payload on a joined connection throws out of the handler.     *)
(***************************************************************************)
C17_NoExceptionEscapes == ~crashed

(***************************************************************************)
(* C18.  Authorization carries from join to send: the sender of every      *)
(* stored message is a participant of the message's chat, and the user of  *)
(* every userOnline, userTyping and userOffline event is a participant of  *)
(* the chat of the room it is sent to, also when the connection joins      *)
(* again as another user or to another chat while its send is suspended.   *)
(***************************************************************************)
PresenceEvents == {"userOnline", "userTyping", "userOffline"}

C18_AuthorizationCarries ==
  /\ \A i \in 1..Len(messages) :
       IsParticipant(messages[i].chatId, messages[i].senderId)
  /\ \A e \in Emitted :
       e.ev \in PresenceEvents => IsParticipant(e.room, e.data.userId)

C18_Witness ==
  \E h \in BagToSet(sends) :
    /\ h.pc # "add"
    /\ \E i \in 1..Len(messages) : IsDocOf(messages[i], h)
    /\ HasSession(h.s)
    /\ userSockets[h.s].userId # h.userId
    /\ userSockets[h.s].chatId # h.chatId
    /\ ~IsParticipant(h.chatId, userSockets[h.s].userId)

(***************************************************************************)
(* C19.  No registry leak: when no handler is suspended on a store call,   *)
(* every key of userSockets and every value of activeUsers is an open      *)
(* connection.  The code breaks it: a join that resumes after its socket   *)
(* has disconnected registers the closed socket (see C1), and a disconnect *)
(* deletes only the last user of a socket from activeUsers (see C2).       *)
(***************************************************************************)
C19_NoRegistryLeak ==
  (joins = EmptyBag /\ sends = EmptyBag)
    => /\ \A s \in DOMAIN userSockets : sock[s] = "open"
       /\ \A u \in DOMAIN activeUsers : sock[activeUsers[u]] = "open"

(***************************************************************************)
(* C20.  Presence is truthful: when userOffline{u} has just been sent to   *)
(* room c, no open connection holds a session of user u for chat c, and u  *)
(* is absent from activeUsers only if no open connection holds a session   *)
(* of user u.  The code breaks it: the disconnect of one of two            *)
(* connections of user u announces u offline and deletes activeUsers[u]    *)
(* while the other connection is open.                                     *)
(***************************************************************************)
C20_PresenceTruthful ==
  \A e \in Emitted :
    e.ev = "userOffline" =>
      /\ ~\E t \in Connected :
            /\ HasSession(t)
            /\ userSockets[t] = [userId |-> e.data.userId, chatId |-> e.room]
      /\ e.data.userId \notin DOMAIN activeUsers
           => ~\E t \in Connected :
                 HasSession(t) /\ userSockets[t].userId = e.data.userId

(***************************************************************************)
(* C15.  Chat creation is order-independent: two requests answered with    *)
(* success whose participants are the same two users in the two orders     *)
(* get the same chatId and the same participants list, which is sorted.    *)
(***************************************************************************)
Swapped(p, q) == Len(p) = 2 /\ Len(q) = 2 /\ q = <<p[2], p[1]>>

C15_OrderIndependent ==
  \A r1, r2 \in served :
    (r1.status = 200 /\ r2.status = 200
       /\ Swapped(r1.req.participants, r2.req.participants))
      => /\ r1.body = r2.body
         /\ ~Less(r1.body.participants[2], r1.body.participants[1])
         /\ r1.body.chatId =
              r1.body.participants[1] \o "_" \o r1.body.participants[2]

C15_Witness ==
  \E r1, r2 \in served :
    /\ r1.status = 200 /\ r2.status = 200
    /\ r1.req # r2.req
    /\ Swapped(r1.req.participants, r2.req.participants)
    /\ r1.body = r2.body

(***************************************************************************)
(* C16.  Chat creation is idempotent on the stored record: no step of a    *)
(* create request changes the record of a chat that exists, whatever the   *)
(* interleaving with other create requests and with sendMessage.  The code *)
(* breaks it: a request that found the chat absent writes the whole        *)
(* record after another request has created the chat and a message has     *)
(* set its lastMessage.                                                    *)
(***************************************************************************)
C16_CreateKeepsRecord ==
  [][ \A h \in BagToSet(creates), ok \in BOOLEAN :
        (ChatDoc(h.chatId).exists /\ (CreateGet(h, ok) \/ CreateSet(h, ok)))
          => chats'[h.chatId] = chats[h.chatId] ]_vars

====
